---- MODULE Spec2Model ----
(***************************************************************************)
(* Model of the in-memory movie CRUD service of main.py (the complete      *)
(* program text, lines 105-229: validated Movie / MovieUpdate bodies, the  *)
(* global movie_db list and movie_id_counter, and the five handlers).      *)
(*                                                                         *)
(* Strings are sequences of one-character strings, so that str.lower()    *)
(* and the substring test `a in b` are computed, not assumed.              *)
(* An Optional[str] is <<>> (None) or <<s>> (the string s).                *)
(* A response is [status, body]; body is the sequence of records that the  *)
(* handler returns (one record for create / get / update, none for errors  *)
(* and for 204).                                                           *)
(***************************************************************************)
EXTENDS Integers, Sequences, FiniteSets, TLC

VARIABLES movie_db,          \* the global list of MovieDB records
          movie_id_counter,  \* the global id counter
          request,           \* the request handled by the last step
          response,          \* the response of the last step
          created,           \* history: ids returned by successful creates, in order
          deleted,           \* history: ids removed by successful deletes
          pc,                \* per worker thread: position inside create_movie
          movie,             \* per worker thread: the validated request body
          new_movie          \* per worker thread: <<>> or <<the record built>>

vars == <<movie_db, movie_id_counter, request, response, created, deleted,
          pc, movie, new_movie>>

seqVars == <<movie_db, movie_id_counter, request, response, created, deleted>>
concVars == <<pc, movie, new_movie>>

-----------------------------------------------------------------------------
(* Bounds *)

MaxCreates == 3

-----------------------------------------------------------------------------
(* Status codes *)

HTTP_200_OK == 200
HTTP_201_CREATED == 201
HTTP_204_NO_CONTENT == 204
HTTP_404_NOT_FOUND == 404
HTTP_422_UNPROCESSABLE == 422

-----------------------------------------------------------------------------
(* Inputs *)

Body(t, p, g) == [title |-> t, playtime |-> p, genre |-> g]

NoBody == Body(<<>>, 0, <<>>)

GoodMovies ==
    { Body(<<"A", "b">>, 1, <<"a", "B">>),
      Body(<<"b">>, 2, <<"b", "b">>) }

BadMovies ==
    { Body(<<>>, 1, <<"a", "B">>),
      Body(<<"b">>, 0, <<"b", "b">>),
      Body(<<"b">>, -1, <<"b", "b">>),
      Body(<<"b">>, 2, <<"a">>),
      Body(<<"A", "b">>, 1, <<>>) }

Movies == GoodMovies \cup BadMovies

Ids == (-1) .. (MaxCreates + 1)

Filters == { <<>>, << <<>> >>, << <<"a">> >>, << <<"B", "B">> >> }

Threads == {1, 2}

-----------------------------------------------------------------------------
(* Strings *)

LowerChar(c) ==
    CASE c = "A" -> "a"
      [] c = "B" -> "b"
      [] c = "Z" -> "z"
      [] OTHER -> c

lower(s) == [i \in 1..Len(s) |-> LowerChar(s[i])]

\* Python's `sub in s` for strings
StrIn(sub, s) ==
    \E k \in 0..(Len(s) - Len(sub)) : SubSeq(s, k + 1, k + Len(sub)) = sub

\* truthiness of an Optional[str]: None and "" are falsy
Truthy(opt) == opt # <<>> /\ opt[1] # <<>>

-----------------------------------------------------------------------------
(* Validation done before a handler body runs *)

\* the first Movie model of the file: no gt=0 on playtime
ValidMovieNoPlaytimeCheck(m) == Len(m.title) >= 1 /\ Len(m.genre) >= 2

\* a Movie model without min_length on title
ValidMovieNoTitleCheck(m) == m.playtime > 0 /\ Len(m.genre) >= 2

ValidMovie(m) == Len(m.title) >= 1 /\ m.playtime > 0 /\ Len(m.genre) >= 2

\* a path parameter declared without gt=0
ValidPathIdAny(id) == TRUE

ValidPathId(id) == id > 0

-----------------------------------------------------------------------------
(* Records and responses *)

MovieDB(id, m) ==
    [id |-> id, title |-> m.title, playtime |-> m.playtime, genre |-> m.genre]

Resp(st, b) == [status |-> st, body |-> b]

Out(db, ctr, r) == [db |-> db, counter |-> ctr, response |-> r]

IdsOf(db) == { db[i].id : i \in 1..Len(db) }

\* index of the first record with the given id, 0 if there is none
FirstIndex(db, id) ==
    IF \E i \in 1..Len(db) : db[i].id = id
    THEN CHOOSE i \in 1..Len(db) :
            db[i].id = id /\ \A j \in 1..(i - 1) : db[j].id # id
    ELSE 0

\* list.remove(x): drops the first element equal to x
ListRemove(db, x) ==
    LET i == CHOOSE k \in 1..Len(db) :
                db[k] = x /\ \A j \in 1..(k - 1) : db[j] # x
    IN  SubSeq(db, 1, i - 1) \o SubSeq(db, i + 1, Len(db))

-----------------------------------------------------------------------------
(* Handler bodies, as functions of the globals they read and write *)

\* a create that numbers the record by the list's length instead of the counter
create_movie_by_length(db, ctr, m) ==
    LET rec == MovieDB(Len(db) + 1, m)
    IN  Out(Append(db, rec), ctr + 1, Resp(HTTP_201_CREATED, <<rec>>))

create_movie(db, ctr, m) ==
    LET counter1 == ctr + 1
        rec == MovieDB(counter1, m)
    IN  Out(Append(db, rec), counter1, Resp(HTTP_201_CREATED, <<rec>>))

TitleMatch(title, m) == StrIn(lower(title), lower(m.title))

GenreMatch(genre, m) == StrIn(lower(genre), lower(m.genre))

\* a search that compares without lower()
get_movies_case_sensitive(db, title, genre) ==
    IF Truthy(title) \/ Truthy(genre)
    THEN LET f1 == IF Truthy(title)
                   THEN SelectSeq(db, LAMBDA m : StrIn(title[1], m.title))
                   ELSE db
             f2 == IF Truthy(genre)
                   THEN SelectSeq(f1, LAMBDA m : StrIn(genre[1], m.genre))
                   ELSE f1
         IN  IF f2 # <<>> THEN f2 ELSE db
    ELSE db

\* a search without the fallback to the whole list
get_movies_no_fallback(db, title, genre) ==
    IF Truthy(title) \/ Truthy(genre)
    THEN LET f1 == IF Truthy(title)
                   THEN SelectSeq(db, LAMBDA m : TitleMatch(title[1], m))
                   ELSE db
         IN  IF Truthy(genre)
             THEN SelectSeq(f1, LAMBDA m : GenreMatch(genre[1], m))
             ELSE f1
    ELSE db

get_movies(db, title, genre) ==
    LET result == db
    IN  IF Truthy(title) \/ Truthy(genre)
        THEN LET f1 == IF Truthy(title)
                       THEN SelectSeq(result, LAMBDA m : TitleMatch(title[1], m))
                       ELSE result
                 filtered_movies ==
                       IF Truthy(genre)
                       THEN SelectSeq(f1, LAMBDA m : GenreMatch(genre[1], m))
                       ELSE f1
             IN  IF filtered_movies # <<>> THEN filtered_movies ELSE result
        ELSE result

get_movie_by_id(db, movie_id) ==
    LET i == FirstIndex(db, movie_id)
    IN  IF i # 0
        THEN Resp(HTTP_200_OK, <<db[i]>>)
        ELSE Resp(HTTP_404_NOT_FOUND, <<>>)

\* an update that keeps the stored playtime
update_movie_keep_playtime(db, ctr, movie_id, m) ==
    LET i == FirstIndex(db, movie_id)
    IN  IF i # 0
        THEN LET updated_movie == MovieDB(movie_id, Body(m.title, db[i].playtime, m.genre))
             IN  Out([db EXCEPT ![i] = updated_movie], ctr,
                     Resp(HTTP_200_OK, <<updated_movie>>))
        ELSE Out(db, ctr, Resp(HTTP_404_NOT_FOUND, <<>>))

update_movie(db, ctr, movie_id, m) ==
    LET i == FirstIndex(db, movie_id)
    IN  IF i # 0
        THEN LET updated_movie == MovieDB(movie_id, m)
             IN  Out([db EXCEPT ![i] = updated_movie], ctr,
                     Resp(HTTP_200_OK, <<updated_movie>>))
        ELSE Out(db, ctr, Resp(HTTP_404_NOT_FOUND, <<>>))

\* a delete that gives the freed id back to the counter
delete_movie_reuse_id(db, ctr, movie_id) ==
    LET i == FirstIndex(db, movie_id)
    IN  IF i # 0
        THEN Out(ListRemove(db, db[i]), ctr - 1, Resp(HTTP_204_NO_CONTENT, <<>>))
        ELSE Out(db, ctr, Resp(HTTP_404_NOT_FOUND, <<>>))

\* a delete that pops the last record once the id is found
delete_movie_pop_last(db, ctr, movie_id) ==
    LET i == FirstIndex(db, movie_id)
    IN  IF i # 0
        THEN Out(SubSeq(db, 1, Len(db) - 1), ctr, Resp(HTTP_204_NO_CONTENT, <<>>))
        ELSE Out(db, ctr, Resp(HTTP_404_NOT_FOUND, <<>>))

delete_movie(db, ctr, movie_id) ==
    LET i == FirstIndex(db, movie_id)
    IN  IF i # 0
        THEN LET movie_to_delete == db[i]
             IN  Out(ListRemove(db, movie_to_delete), ctr,
                     Resp(HTTP_204_NO_CONTENT, <<>>))
        ELSE Out(db, ctr, Resp(HTTP_404_NOT_FOUND, <<>>))

-----------------------------------------------------------------------------
(* Requests *)

Req(op, id, m, t, g) ==
    [op |-> op, movie_id |-> id, movie |-> m, title |-> t, genre |-> g]

Invalid(db, ctr) == Out(db, ctr, Resp(HTTP_422_UNPROCESSABLE, <<>>))

Init ==
    /\ movie_db = <<>>
    /\ movie_id_counter = 0
    /\ request = Req("none", 0, NoBody, <<>>, <<>>)
    /\ response = Resp(0, <<>>)
    /\ created = <<>>
    /\ deleted = {}
    /\ pc = [t \in Threads |-> "idle"]
    /\ movie = [t \in Threads |-> NoBody]
    /\ new_movie = [t \in Threads |-> <<>>]

Commit(req, out) ==
    /\ request' = req
    /\ response' = out.response
    /\ movie_db' = out.db
    /\ movie_id_counter' = out.counter
    /\ created' = IF req.op = "create" /\ out.response.status = HTTP_201_CREATED
                  THEN Append(created, out.response.body[1].id)
                  ELSE created
    /\ deleted' = IF req.op = "delete" /\ out.response.status = HTTP_204_NO_CONTENT
                  THEN deleted \cup {req.movie_id}
                  ELSE deleted
    /\ UNCHANGED concVars

\* POST /movies
PostMovies ==
    \E m \in Movies :
        /\ ValidMovie(m) => movie_id_counter < MaxCreates
        /\ Commit(Req("create", 0, m, <<>>, <<>>),
                  IF ValidMovie(m)
                  THEN create_movie(movie_db, movie_id_counter, m)
                  ELSE Invalid(movie_db, movie_id_counter))

\* GET /movies?title=&genre=
GetMovies ==
    \E t \in Filters, g \in Filters :
        Commit(Req("list", 0, NoBody, t, g),
               Out(movie_db, movie_id_counter,
                   Resp(HTTP_200_OK, get_movies(movie_db, t, g))))

\* GET /movies/{movie_id}
GetMovieById ==
    \E id \in Ids :
        Commit(Req("get", id, NoBody, <<>>, <<>>),
               IF ValidPathId(id)
               THEN Out(movie_db, movie_id_counter, get_movie_by_id(movie_db, id))
               ELSE Invalid(movie_db, movie_id_counter))

\* PUT /movies/{movie_id}
PutMovie ==
    \E id \in Ids, m \in Movies :
        Commit(Req("update", id, m, <<>>, <<>>),
               IF ValidPathId(id) /\ ValidMovie(m)
               THEN update_movie(movie_db, movie_id_counter, id, m)
               ELSE Invalid(movie_db, movie_id_counter))

\* DELETE /movies/{movie_id}
DeleteMovie ==
    \E id \in Ids :
        Commit(Req("delete", id, NoBody, <<>>, <<>>),
               IF ValidPathId(id)
               THEN delete_movie(movie_db, movie_id_counter, id)
               ELSE Invalid(movie_db, movie_id_counter))

Next == PostMovies \/ GetMovies \/ GetMovieById \/ PutMovie \/ DeleteMovie

Spec == Init /\ [][Next]_vars

-----------------------------------------------------------------------------
(* Two worker threads inside create_movie, one statement per step.  The     *)
(* body has been validated before the handler is entered.                  *)

Receive(t) ==
    /\ pc[t] = "idle"
    /\ \E m \in Movies :
          IF ValidMovie(m)
          THEN /\ pc' = [pc EXCEPT ![t] = "inc"]
               /\ movie' = [movie EXCEPT ![t] = m]
          ELSE /\ pc' = [pc EXCEPT ![t] = "rejected"]
               /\ UNCHANGED movie
    /\ UNCHANGED <<new_movie, seqVars>>

\* movie_id_counter += 1
Inc(t) ==
    /\ pc[t] = "inc"
    /\ movie_id_counter' = movie_id_counter + 1
    /\ pc' = [pc EXCEPT ![t] = "build"]
    /\ UNCHANGED <<movie_db, request, response, created, deleted, movie, new_movie>>

\* new_movie = MovieDB(id=movie_id_counter, ...)
Build(t) ==
    /\ pc[t] = "build"
    /\ new_movie' = [new_movie EXCEPT ![t] = <<MovieDB(movie_id_counter, movie[t])>>]
    /\ pc' = [pc EXCEPT ![t] = "append"]
    /\ UNCHANGED <<seqVars, movie>>

\* movie_db.append(new_movie); return new_movie
AppendStep(t) ==
    /\ pc[t] = "append"
    /\ movie_db' = Append(movie_db, new_movie[t][1])
    /\ pc' = [pc EXCEPT ![t] = "done"]
    /\ UNCHANGED <<movie_id_counter, request, response, created, deleted,
                   movie, new_movie>>

NextConc == \E t \in Threads : Receive(t) \/ Inc(t) \/ Build(t) \/ AppendStep(t)

SpecConc == Init /\ [][NextConc]_vars

-----------------------------------------------------------------------------
(* Vocabulary of the properties, stated without the handlers' operators *)

Range(f) == { f[i] : i \in 1..Len(f) }

\* position of id in the creation history
PosIn(hist, id) == CHOOSE i \in 1..Len(hist) : hist[i] = id

\* the field rules of a request body
FieldsOk(m) == m.title # <<>> /\ ~(m.playtime <= 0) /\ ~(Len(m.genre) < 2)

SameLetter(a, b) ==
    \/ a = b
    \/ {a, b} \in { {"a", "A"}, {"b", "B"}, {"z", "Z"} }

\* case-insensitive substring
ContainsCI(s, sub) ==
    \E k \in 0..(Len(s) - Len(sub)) :
        \A i \in 1..Len(sub) : SameLetter(s[k + i], sub[i])

\* the record satisfies every provided filter
Satisfies(m, t, g) ==
    /\ t # <<>> => ContainsCI(m.title, t[1])
    /\ g # <<>> => ContainsCI(m.genre, g[1])

Matching(db, t, g) == { i \in 1..Len(db) : Satisfies(db[i], t, g) }

\* the operation of this step is one that looks a record up with valid fields
LooksUp(req) ==
    \/ req.op \in {"get", "delete"}
    \/ req.op = "update" /\ FieldsOk(req.movie)

Created(req, resp) == req.op = "create" /\ resp.status = HTTP_201_CREATED
Updated(req, resp) == req.op = "update" /\ resp.status = HTTP_200_OK
Deleted(req, resp) == req.op = "delete" /\ resp.status = HTTP_204_NO_CONTENT

-----------------------------------------------------------------------------
\* C1: every successful create returns the id 1 + (number of successful
\* creates before it); every other step (delete, update, read, failed
\* operation) leaves the counter, hence the next id, unchanged.
C1_CreateIdCountsPriorCreates ==
    [][ IF Created(request', response')
        THEN /\ response'.body[1].id = 1 + Len(created)
             /\ movie_id_counter' = 1 + Len(created)
        ELSE movie_id_counter' = movie_id_counter ]_vars

\* a third create, after two deletes, got id 3
C1_Witness ==
    /\ Created(request, response)
    /\ response.body[1].id = 3
    /\ Cardinality(deleted) = 2
    /\ Len(movie_db) = 1

\* C2: records are stored in creation order with strictly increasing ids
\* between 1 and the counter, and a create never hands out an id that was
\* assigned before, deleted or not.
C2_IdsIncreasingNeverReused ==
    /\ [](/\ \A i \in 1..Len(movie_db) :
                /\ movie_db[i].id \in 1..movie_id_counter
                /\ movie_db[i].id \in Range(created)
          /\ \A i, j \in 1..Len(movie_db) :
                i < j => /\ movie_db[i].id < movie_db[j].id
                         /\ PosIn(created, movie_db[i].id)
                              < PosIn(created, movie_db[j].id))
    /\ [][ Created(request', response') =>
             /\ response'.body[1].id \notin Range(created)
             /\ \A id \in Range(created) : id < response'.body[1].id ]_vars

\* a create after the deletion of an earlier record
C2_Witness ==
    /\ Created(request, response)
    /\ IdsOf(movie_db) = {1, 3}
    /\ deleted = {2}

\* C3: create or update with playtime <= 0, an empty title or a genre shorter
\* than 2 characters fails with a validation error and leaves the collection
\* and the counter as they were.
C3_InvalidFieldsRejected ==
    [][ (request'.op \in {"create", "update"} /\ ~FieldsOk(request'.movie)) =>
            /\ response'.status = HTTP_422_UNPROCESSABLE
            /\ response'.body = <<>>
            /\ movie_db' = movie_db
            /\ movie_id_counter' = movie_id_counter ]_vars

\* a create with playtime <= 0 was refused on a non-empty store
C3_Witness ==
    /\ request.op = "create"
    /\ request.movie.playtime <= 0
    /\ response.status = HTTP_422_UNPROCESSABLE
    /\ Len(movie_db) = 2

\* C4 as stated: getById, update (valid fields) and delete with any absent
\* integer id, zero and negative ids included, fail with NotFoundError and
\* leave the collection unchanged.
C4_AbsentIdAlwaysNotFound ==
    [][ (LooksUp(request') /\ request'.movie_id \notin IdsOf(movie_db)) =>
            /\ response'.status = HTTP_404_NOT_FOUND
            /\ movie_db' = movie_db ]_vars

\* C4 amended: with an absent id the three operations never change the
\* collection or the counter; a positive absent id (deleted, or larger than
\* the counter) fails with NotFoundError, a zero or negative id is refused
\* with a validation error.
C4_AbsentIdFails ==
    [][ (LooksUp(request') /\ request'.movie_id \notin IdsOf(movie_db)) =>
            /\ movie_db' = movie_db
            /\ movie_id_counter' = movie_id_counter
            /\ response'.body = <<>>
            /\ response'.status = IF request'.movie_id > 0
                                  THEN HTTP_404_NOT_FOUND
                                  ELSE HTTP_422_UNPROCESSABLE ]_vars

\* an update with valid fields of a deleted id was answered 404
C4_Witness ==
    /\ request.op = "update"
    /\ FieldsOk(request.movie)
    /\ request.movie_id \in deleted
    /\ response.status = HTTP_404_NOT_FOUND
    /\ movie_db # <<>>

\* C5: a successful update returns and stores, at the position of the record
\* with that id, a record with the same id and exactly the provided title,
\* playtime and genre; the other records, the length and the counter are
\* unchanged; a getById of that id right after it returns the updated record.
C5_UpdateReplacesInPlace ==
    [][ /\ Updated(request', response') =>
             LET id == request'.movie_id
                 m == request'.movie
                 expected == [id |-> id, title |-> m.title,
                              playtime |-> m.playtime, genre |-> m.genre]
             IN  /\ response'.body = <<expected>>
                 /\ Len(movie_db') = Len(movie_db)
                 /\ movie_id_counter' = movie_id_counter
                 /\ \E i \in 1..Len(movie_db) :
                       /\ movie_db[i].id = id
                       /\ movie_db'[i] = expected
                       /\ \A j \in 1..Len(movie_db) :
                             j # i => movie_db'[j] = movie_db[j]
        /\ (/\ Updated(request, response)
            /\ request'.op = "get"
            /\ request'.movie_id = request.movie_id) =>
             /\ response'.status = HTTP_200_OK
             /\ response'.body = response.body ]_vars

\* the first of three records was updated
C5_Witness ==
    /\ Updated(request, response)
    /\ Len(movie_db) = 3
    /\ movie_db[1] = response.body[1]
    /\ movie_db[1].playtime = 2
    /\ movie_db[2].playtime = 1

\* C6: a successful delete removes exactly the record with that id (the
\* others keep their order, the counter is unchanged), and from then on
\* getById, update (valid fields) and delete of that id fail with
\* NotFoundError, whatever happens in between.
C6_DeleteIsPermanent ==
    [][ /\ Deleted(request', response') =>
             LET id == request'.movie_id
             IN  /\ id \in IdsOf(movie_db)
                 /\ Len(movie_db') = Len(movie_db) - 1
                 /\ movie_db' = SelectSeq(movie_db, LAMBDA r : r.id # id)
                 /\ movie_id_counter' = movie_id_counter
        /\ (LooksUp(request') /\ request'.movie_id \in deleted) =>
             /\ response'.status = HTTP_404_NOT_FOUND
             /\ movie_db' = movie_db
        /\ IdsOf(movie_db') \cap deleted = {} ]_vars

\* a deleted id is looked up after a later create
C6_Witness ==
    /\ request.op = "get"
    /\ request.movie_id = 1
    /\ deleted = {1}
    /\ response.status = HTTP_404_NOT_FOUND
    /\ IdsOf(movie_db) = {2, 3}

\* C7: list with filters that no record satisfies returns the whole
\* collection, so list returns an empty sequence only on an empty store.
C7_NoMatchReturnsAll ==
    request.op = "list" =>
        /\ Matching(movie_db, request.title, request.genre) = {} =>
               response.body = movie_db
        /\ response.body = <<>> => movie_db = <<>>

\* the title filter selects one record and the genre filter the other, so no
\* record satisfies both
C7_Witness ==
    /\ request.op = "list"
    /\ request.title = << <<"a">> >>
    /\ request.genre = << <<"B", "B">> >>
    /\ Len(movie_db) = 2
    /\ movie_db[1].title # movie_db[2].title
    /\ response.body = movie_db

\* C8: list without filter returns all records; list with filters that some
\* record satisfies returns exactly the satisfying records in insertion
\* order; list changes neither the collection nor the counter.
C8_ListFilters ==
    [][ request'.op = "list" =>
          LET t == request'.title
              g == request'.genre
              hits == Matching(movie_db, t, g)
          IN  /\ movie_db' = movie_db
              /\ movie_id_counter' = movie_id_counter
              /\ response'.status = HTTP_200_OK
              /\ (t = <<>> /\ g = <<>>) => response'.body = movie_db
              /\ hits # {} =>
                    response'.body =
                        SelectSeq(movie_db, LAMBDA r : Satisfies(r, t, g)) ]_vars

\* a genre filter in another case than the stored genre selects one of two
C8_Witness ==
    /\ request.op = "list"
    /\ request.title = <<>>
    /\ request.genre = << <<"B", "B">> >>
    /\ Len(movie_db) = 2
    /\ Len(response.body) = 1

\* C9: every stored record has a positive id, a non-empty title, a playtime
\* greater than 0 and a genre of at least 2 characters.
C9_StoredRecordsValid ==
    \A i \in 1..Len(movie_db) :
        /\ movie_db[i].id \in Nat \ {0}
        /\ Len(movie_db[i].title) > 0
        /\ movie_db[i].playtime \in Nat \ {0}
        /\ Len(movie_db[i].genre) >= 2

\* two records, the last step a successful update
C9_Witness ==
    /\ Updated(request, response)
    /\ Len(movie_db) = 2
    /\ Len(created) = 3

\* C10: two creates interleaved statement by statement end with two records
\* of distinct ids, both in the collection.
C10_ConcurrentCreatesDistinctIds ==
    (pc[1] = "done" /\ pc[2] = "done") =>
        /\ new_movie[1][1].id # new_movie[2][1].id
        /\ \E i, j \in 1..Len(movie_db) :
              /\ i # j
              /\ movie_db[i] = new_movie[1][1]
              /\ movie_db[j] = new_movie[2][1]

====
